---- MODULE Spec2Model ----
(***************************************************************************)
(* Model of the timetracker core (src/app/src-tauri/src/lib.rs and         *)
(* src/app/src-tauri/src/plugins/): the watcher thread's sampling loop,    *)
(* save_activity, the tracking toggle, the store queries, the plugin       *)
(* registry and its configuration file, ticket extraction by the Redmine   *)
(* integration's rules, the sync_time_entry / test_plugin_connection       *)
(* commands with their one HTTP request, and the order in which the        *)
(* watcher thread and the commands take and drop the two mutexes of        *)
(* AppState and the RwLock of PluginManager.                               *)
(*                                                                         *)
(* Time.  Local::now() is the wall clock with sub-second precision.  The   *)
(* clock `now` counts sub-second units, TicksPerSec of them to a second.   *)
(* Stored timestamps are formatted "%Y-%m-%dT%H:%M:%S": the sub-second     *)
(* part is cut off and the text is <<day, second of day>>, compared as     *)
(* SQLite compares TEXT (lexicographically).  The wall clock can be        *)
(* stepped backward by the environment (ClockBack); thread::sleep waits on *)
(* elapsed time, which a step of the wall clock does not change.           *)
(***************************************************************************)
EXTENDS Integers, Sequences, FiniteSets, TLC

\* ---------------------------------------------------------------- bounds
\* sub-second units per second (resolution of the modelled clock)
TicksPerSec == 2
\* seconds per modelled calendar day
SecPerDay == 2
\* the wall clock runs over 0..MaxClock units
MaxClock == 6
\* how many times the wall clock is stepped backward in a run
MaxAdjust == 1
\* rows of the tables the queries are checked on
MaxStoreRows == 3
\* entries of a configuration document
MaxEntries == 2
\* load_from_config calls in a run
MaxLoads == 1

\* ---------------------------------------------------------------- values
None == <<>>
Some(x) == <<x>>

\* (process_name, window_title, domain) triples the focus probe returns
ProbeSamples ==
    { [process_name |-> "chrome.exe", window_title |-> "Bug report",
       domain |-> Some("tracker.example.com")],
      [process_name |-> "chrome.exe", window_title |-> "Bug report",
       domain |-> None],
      [process_name |-> "Code.exe", window_title |-> "lib.rs",
       domain |-> None] }

\* last_process / last_title / last_domain after String::new(), clear(), None
Cleared == [process_name |-> "", window_title |-> "", domain |-> None]

VARIABLES
    now,             \* Local::now(), in sub-second units
    adjusts,         \* backward steps of the wall clock so far
    slept,           \* elapsed units of the current thread::sleep (saturating)
    is_tracking,     \* AppState.is_tracking
    db,              \* rows of table activities, in insertion order
    seq,             \* sqlite_sequence of activities (AUTOINCREMENT)
    wpc,             \* position of the watcher thread in its loop body
    last,            \* last_process, last_title, last_domain
    activity_start,  \* Option<DateTime<Local>>
    start,           \* the `start` taken out of activity_start for save_activity
    cur,             \* the probe sample bound by `if let Some(..)`
    dropped,         \* history: some save_activity call returned without storing
    failed,          \* history: some INSERT of save_activity returned an error
    toggled,         \* history: the value run() or the last start / stop wrote
    offTicks,        \* history: ticks begun since the toggle went off (0..2)
    tgl,             \* history: the last stop/start toggle made with an Open interval
    resp,            \* what the command executed by the last step returned
    plugins,         \* PluginManager.plugins: the Vec behind the RwLock
    writer,          \* the RwLock's write guard is held
    readers,         \* read guards of the RwLock that are held
    loads,           \* load_from_config calls started so far
    ld,              \* the task running load_from_config
    tasks,           \* the tasks running the other plugin commands
    committed,       \* history: the complete list of the last finished load
    obs,             \* history: the last sync_time_entry / test_connection that returned
    locks            \* the task holding the guard of AppState.db / AppState.is_tracking

vars == <<now, adjusts, slept, is_tracking, db, seq, wpc, last, activity_start,
          start, cur, dropped, failed, toggled, offTicks, tgl, resp, plugins, writer,
          readers, loads, ld, tasks, committed, obs, locks>>

\* the state of the plugin registry
pluginVars == <<plugins, writer, readers, loads, ld, tasks, committed, obs>>

\* the state of the recorder
recorderVars == <<now, adjusts, slept, is_tracking, db, seq, wpc, last,
                  activity_start, start, cur, dropped, failed, toggled, offTicks,
                  tgl>>

\* ------------------------------------------------------- pure functions
\* DateTime::format("%Y-%m-%dT%H:%M:%S"): the sub-second part is dropped; the
\* text is the date followed by the time of day
Format(t) ==
    LET s == t \div TicksPerSec IN <<s \div SecPerDay, s % SecPerDay>>

\* a duration taken as the distance of the two instants
num_seconds_abs(d) ==
    IF d >= 0 THEN d \div TicksPerSec ELSE (0 - d) \div TicksPerSec

\* chrono Duration::num_seconds: whole seconds, truncated toward zero
num_seconds(d) ==
    IF d >= 0 THEN d \div TicksPerSec ELSE 0 - ((0 - d) \div TicksPerSec)

\* SQLite's comparison of two TEXT timestamps of the same shape
TextLeq(a, b) == a[1] < b[1] \/ (a[1] = b[1] /\ a[2] <= b[2])

\* whole seconds between two stored timestamps
Seconds(ts) == ts[1] * SecPerDay + ts[2]

\* take that leaves the value in place
take_keep(a) == a

\* Option::take: the value is moved out and None is left behind
take(a) == None

\* the pause branch without the three clearing statements
clear_skipped(l) == l

\* last_process.clear(); last_title.clear(); last_domain = None
clear(l) == Cleared

\* a comparison of the process names alone
changed_process_only(s, l) == s.process_name # l.process_name

\* `changed` of the watcher loop
changed(s, l) ==
    \/ s.process_name # l.process_name
    \/ s.window_title # l.window_title
    \/ s.domain # l.domain

\* save_activity without the `duration < 1` return
Discarded_name_only(process_name, duration) == process_name = ""

\* a start back-dated by a second, to the sample before the change
fresh_start_backdated(t) == Some(t - TicksPerSec)

\* activity_start = Some(Local::now()), t being the value of Local::now()
fresh_start(t) == Some(t)

\* the two early returns of save_activity
Discarded(process_name, duration) == process_name = "" \/ duration < 1

\* an insert that writes the row twice
Insert_twice(rows, lastId, r) ==
    Append(Append(rows, [r EXCEPT !.id = lastId + 1]), [r EXCEPT !.id = lastId + 2])

\* an insert that extends the newest row when it is of the same process
Insert_merge(rows, lastId, r) ==
    IF rows # <<>> /\ rows[Len(rows)].process_name = r.process_name
    THEN [rows EXCEPT ![Len(rows)].end_time = r.end_time,
                      ![Len(rows)].duration_seconds = @ + r.duration_seconds]
    ELSE Append(rows, [r EXCEPT !.id = lastId + 1])

\* INSERT INTO activities: AUTOINCREMENT gives the row the id after the largest
\* id ever assigned, and the row is added to the table
Insert(rows, lastId, r) == Append(rows, [r EXCEPT !.id = lastId + 1])

\* save_activity: the table after the call
save_activity(rows, lastId, l, st, end) ==
    LET duration == num_seconds(end - st) IN
    IF Discarded(l.process_name, duration)
    THEN rows
    ELSE Insert(rows, lastId,
                [id |-> 0,
                 process_name |-> l.process_name,
                 window_title |-> l.window_title,
                 domain |-> l.domain,
                 start_time |-> Format(st),
                 end_time |-> Format(end),
                 duration_seconds |-> duration])

\* ---------------------------------------------------------------- queries
\* format!("{}T00:00:00", date) and format!("{}T23:59:59", date)
start_of_day(date) == <<date, 0>>
end_of_day(date) == <<date, SecPerDay - 1>>

\* the range test with `<` for the upper bound
InDay_exclusive(r, date) ==
    TextLeq(<<date, 0>>, r.start_time) /\ ~TextLeq(<<date, SecPerDay - 1>>, r.start_time)

\* WHERE start_time >= ?1 AND start_time <= ?2
InDay(r, date) ==
    TextLeq(start_of_day(date), r.start_time) /\ TextLeq(r.start_time, end_of_day(date))

\* the filter without `AND domain != ''`
HasDomain_not_null(r) == r.domain # None

\* AND domain IS NOT NULL AND domain != ''
HasDomain(r) == r.domain # None /\ r.domain # Some("")

\* the rows of the table as a set
RowSet(rows) == {rows[i] : i \in 1 .. Len(rows)}

\* the orders in which a SELECT may return the set S: every element once
Arrangements(S) ==
    {f \in [1 .. Cardinality(S) -> S] : \A x \in S : \E i \in DOMAIN f : f[i] = x}

RECURSIVE SumDurations(_)
\* SUM(duration_seconds) over a group
SumDurations(S) ==
    IF S = {} THEN 0
    ELSE LET r == CHOOSE x \in S : TRUE
         IN r.duration_seconds + SumDurations(S \ {r})

RECURSIVE SumTotals(_)
\* summaries.iter().map(|(_, s)| s).sum()
SumTotals(summaries) ==
    IF summaries = <<>> THEN 0
    ELSE Head(summaries).total + SumTotals(Tail(summaries))

\* the share computed in integer arithmetic: (secs / total_seconds) * 100
percentage_integer(secs, total_seconds) ==
    IF total_seconds > 0
    THEN [num |-> (secs \div total_seconds) * 100, den |-> 1]
    ELSE [num |-> 0, den |-> 1]

\* (secs as f64 / total_seconds as f64) * 100.0, else 0.0: the value is kept
\* as the exact fraction num / den
percentage(secs, total_seconds) ==
    IF total_seconds > 0
    THEN [num |-> secs * 100, den |-> total_seconds]
    ELSE [num |-> 0, den |-> 1]

\* get_activities: the results the SELECT .. ORDER BY start_time ASC may give
\* (rows of equal start_time come in either order)
get_activities(rows, date) ==
    LET hit == {r \in RowSet(rows) : InDay(r, date)} IN
    {f \in Arrangements(hit) :
        \A i, j \in DOMAIN f : i < j => TextLeq(f[i].start_time, f[j].start_time)}

\* SELECT key, SUM(duration_seconds) as total .. GROUP BY key ORDER BY total
\* DESC over the rows `hit`, key[r] being the grouping column of row r (groups
\* of equal total come in either order)
GroupBy(hit, key) ==
    LET groups == {[key |-> k, total |-> SumDurations({r \in hit : key[r] = k})] :
                      k \in {key[r] : r \in hit}}
    IN {f \in Arrangements(groups) :
           \A i, j \in DOMAIN f : i < j => f[i].total >= f[j].total}

\* the mapping of the (key, total) pairs to AppSummary / DomainSummary
Summaries(summaries) ==
    LET total_seconds == SumTotals(summaries) IN
    [i \in DOMAIN summaries |->
        [key |-> summaries[i].key,
         total_seconds |-> summaries[i].total,
         percentage |-> percentage(summaries[i].total, total_seconds)]]

get_app_summary(rows, date) ==
    LET hit == {r \in RowSet(rows) : InDay(r, date)}
    IN {Summaries(g) : g \in GroupBy(hit, [r \in hit |-> r.process_name])}

get_domain_summary(rows, date) ==
    LET hit == {r \in RowSet(rows) : InDay(r, date) /\ HasDomain(r)}
    IN {Summaries(g) : g \in GroupBy(hit, [r \in hit |-> r.domain[1]])}

NoResp == [cmd |-> "none"]

\* a launch that leaves the flag as AppState::new made it
run_default_skipped(flag) == flag

\* run(): *app_state.is_tracking.lock() = true ("Start tracking by default"),
\* on the flag AppState::new made with Mutex::new(false), before
\* start_watcher_thread
run_default(flag) == TRUE

\* Mutex::new(conn), Mutex::new(false): neither mutex of AppState is locked
Unlocked == [db |-> None, is_tracking |-> None]

\* ---------------------------------------------------------------- history
\* tgl follows one stop_tracking / start_tracking pair made while an interval
\* is Open: phase "off" after the stop, "on" after the start, "done" once the
\* watcher has finished the first tick with a probe sample after the start;
\* sampled: a tick read the toggle while it was off; emitted: save_activity
\* calls since the stop; fresh: an interval was opened since the start; open:
\* an interval was Open when the phase became "done"
NoToggle == [phase |-> "none", sampled |-> FALSE, emitted |-> 0, fresh |-> FALSE,
             open |-> FALSE]

TglEmit(t) ==
    IF t.phase \in {"off", "on"} THEN [t EXCEPT !.emitted = t.emitted + 1] ELSE t

TglOpen(t) ==
    IF t.phase = "on"
    THEN [t EXCEPT !.phase = "done", !.fresh = TRUE, !.open = TRUE] ELSE t

TglSame(t) ==
    IF t.phase = "on"
    THEN [t EXCEPT !.phase = "done", !.open = (activity_start # None)] ELSE t

\* --------------------------------------------------------- plugin registry
\* the entries a configuration document is made of: name and enabled flag
Entries == [name : {"redmine", "tracker"}, enabled : BOOLEAN]

\* the configuration documents: up to MaxEntries entries
Configs == UNION {[1 .. n -> Entries] : n \in 0 .. MaxEntries}

\* an entry as the [[integrations]] table of a document, with the key `url`
Written(e) == [name |-> e.name, enabled |-> e.enabled, url |-> TRUE]

\* an [[integrations]] table of an enabled entry written without the key `url`
NoUrl == [name |-> "tracker", enabled |-> TRUE, url |-> FALSE]

\* the tables of the documents that hold a table without `url`, alone, before
\* and after a complete table
Incomplete ==
    { <<NoUrl>>,
      <<NoUrl, Written([name |-> "redmine", enabled |-> TRUE])>>,
      <<Written([name |-> "redmine", enabled |-> TRUE]), NoUrl>> }

\* integrations.toml as load() finds it: no file at the path, a file that
\* cannot be read, a file that is not TOML, or a TOML text of up to MaxEntries
\* complete [[integrations]] tables or with the tables of Incomplete
Documents ==
    {[file |-> "missing"], [file |-> "unreadable"], [file |-> "not toml"]}
        \cup {[file |-> "toml", integrations |-> [i \in DOMAIN cfg |-> Written(cfg[i])]] :
                 cfg \in Configs}
        \cup {[file |-> "toml", integrations |-> es] : es \in Incomplete}

\* IntegrationsConfig::default(): integrations is the empty Vec
Default == <<>>

\* toml::from_str::<IntegrationsConfig>: RedmineConfig.url is a String without
\* a serde default, so a table that lacks it fails the whole document
toml_from_str(doc) ==
    IF doc.file = "toml" /\ \A i \in DOMAIN doc.integrations : doc.integrations[i].url
    THEN Some([i \in DOMAIN doc.integrations |->
                 [name |-> doc.integrations[i].name,
                  enabled |-> doc.integrations[i].enabled]])
    ELSE None

\* a load that falls back to an enabled sample entry
IntegrationsConfig_load_sample(doc) ==
    LET parsed == toml_from_str(doc) IN
    IF doc.file \in {"missing", "unreadable"} \/ parsed = None
    THEN <<[name |-> "redmine", enabled |-> TRUE]>>
    ELSE parsed[1]

\* IntegrationsConfig::load: the parsed document, and Self::default() when the
\* file does not exist, cannot be read or cannot be parsed
IntegrationsConfig_load(doc) ==
    LET parsed == toml_from_str(doc) IN
    IF doc.file \in {"missing", "unreadable"} \/ parsed = None
    THEN Default
    ELSE parsed[1]

\* a loop that constructs a plugin for every entry
skipped_never(entry) == FALSE

\* if !entry.enabled { continue; }
skipped(entry) == ~entry.enabled

\* list_plugins: .iter().map(|p| p.name().to_string()).collect()
list_plugins(list) == [i \in DOMAIN list |-> list[i].name]

\* the tasks that run list_plugins, extract_all_ticket_ids, sync_time_entry
\* and test_connection
Callers == {"t1", "t2"}

\* Arc::new(RedmineIntegration::new(entry.name, entry.enabled, ..)?): a new
\* instance; `load` tells the instances of different loads apart
RedmineIntegration_new(entry, load) == [name |-> entry.name, load |-> load]

\* a lookup that returns the first plugin of the list, whatever its name
get_plugin_first(list, name) == IF list # <<>> THEN Some(list[1]) ELSE None

\* get_plugin: .iter().find(|p| p.name() == name).cloned()
get_plugin(list, name) ==
    IF \E i \in DOMAIN list : list[i].name = name
    THEN Some(list[CHOOSE i \in DOMAIN list :
                     /\ list[i].name = name
                     /\ \A j \in 1 .. i - 1 : list[j].name # name])
    ELSE None

\* the plugin a task in flight works with: the Arc it cloned out of the list
plugin_of(task, list) == task.plugin

\* the write guard as a temporary of `self.plugins.write().clear()`: dropped
\* at the end of that statement
guard_dropped == FALSE

\* `let mut plugins = self.plugins.write();` the guard lives to the end of
\* load_from_config: it is still held after plugins.clear()
guard_held == TRUE

\* the complete list a load of the document cfg builds (history)
Complete(cfg, load) ==
    LET on == SelectSeq(cfg, LAMBDA e : e.enabled)
    IN [i \in DOMAIN on |-> [name |-> on[i].name, load |-> load]]

Idle == [pc |-> "idle"]

\* PluginManager::new() followed by the load_from_config of AppState::new
InitRegistry(cfg) ==
    /\ plugins = Complete(cfg, 0)
    /\ writer = FALSE
    /\ readers = 0
    /\ loads = 0
    /\ ld = Idle
    /\ tasks = [c \in Callers |-> Idle]
    /\ committed = Complete(cfg, 0)
    /\ obs = [cmd |-> "none"]

\* ------------------------------------------------------------------- Init
\* run(): AppState::new() opens the database and run() sets is_tracking to
\* true before start_watcher_thread; the watcher starts with empty locals
Init ==
    /\ now \in 0 .. TicksPerSec
    /\ adjusts = 0
    /\ slept = 0
    /\ is_tracking = run_default(FALSE)
    /\ db = <<>>
    /\ seq = 0
    /\ wpc = "sleep"
    /\ last = Cleared
    /\ activity_start = None
    /\ start = None
    /\ cur = None
    /\ dropped = FALSE
    /\ failed = FALSE
    /\ toggled = is_tracking
    /\ offTicks = 0
    /\ tgl = NoToggle
    /\ resp = NoResp
    /\ locks = Unlocked
    /\ InitRegistry(<<>>)

\* ------------------------------------------------------------ environment
\* time passes: the wall clock and the sleeping thread's elapsed time advance
Elapse ==
    /\ resp' = NoResp
    /\ UNCHANGED <<pluginVars, locks>>
    /\ now < MaxClock
    /\ now' = now + 1
    /\ slept' = IF wpc = "sleep" /\ slept < TicksPerSec THEN slept + 1 ELSE slept
    /\ UNCHANGED <<adjusts, is_tracking, db, seq, wpc, last, activity_start,
                   start, cur, dropped, failed, toggled, offTicks, tgl>>

\* the wall clock is stepped backward (NTP, manual change); elapsed sleep
\* time is not affected
ClockBack ==
    /\ resp' = NoResp
    /\ UNCHANGED <<pluginVars, locks>>
    /\ adjusts < MaxAdjust
    /\ \E d \in 1 .. now :
          now' = now - d
    /\ adjusts' = adjusts + 1
    /\ UNCHANGED <<slept, is_tracking, db, seq, wpc, last, activity_start,
                   start, cur, dropped, failed, toggled, offTicks, tgl>>

\* --------------------------------------------------------------- commands
start_tracking ==
    /\ resp' = NoResp
    /\ UNCHANGED <<pluginVars, locks>>
    /\ is_tracking' = TRUE
    /\ toggled' = TRUE
    /\ offTicks' = 0
    /\ tgl' = IF tgl.phase = "off" THEN [tgl EXCEPT !.phase = "on"] ELSE tgl
    /\ UNCHANGED <<now, adjusts, slept, db, seq, wpc, last, activity_start,
                   start, cur, dropped, failed>>

stop_tracking ==
    /\ resp' = NoResp
    /\ UNCHANGED <<pluginVars, locks>>
    /\ is_tracking' = FALSE
    /\ toggled' = FALSE
    /\ offTicks' = IF is_tracking THEN 0 ELSE offTicks
    /\ tgl' = IF is_tracking /\ activity_start # None
              THEN [NoToggle EXCEPT !.phase = "off"]
              ELSE IF is_tracking THEN NoToggle ELSE tgl
    /\ UNCHANGED <<now, adjusts, slept, db, seq, wpc, last, activity_start,
                   start, cur, dropped, failed>>

\* the command is_tracking: *state.is_tracking.lock()
IsTracking ==
    /\ resp' = [cmd |-> "is_tracking", result |-> is_tracking]
    /\ UNCHANGED <<pluginVars, locks>>
    /\ UNCHANGED recorderVars

\* ---------------------------------------------------------- watcher thread
\* the Result of db.execute(INSERT ..) in save_activity: None when the call
\* returns before the INSERT, else the Result, Ok or an Err of SQLite
db_execute(l, st, end) ==
    IF Discarded(l.process_name, num_seconds(end - st))
    THEN {None}
    ELSE {Some("Ok"), Some("Err")}

\* db.execute(..).unwrap(): an Err ends the watcher thread
discard_unwrap(result) == IF result = "Err" THEN "panic" ELSE "return"

\* `let _ = db.execute(..);` the Result is dropped and save_activity returns
discard(result) == "return"

\* a pause branch that runs on into the probe
continue_skipped == "probe"

\* `continue;` at the end of the pause branch: back to thread::sleep
continue == "sleep"

\* an else branch that closes the open interval when the probe yields nothing
else_none_closed(a) == None

\* `if let Some(..) = get_active_window_info() { .. }` has no else branch:
\* activity_start is left as it is when the probe yields None
else_none(a) == a

\* the loop body up to the first save_activity / assignment: the sleep has
\* ended, the toggle is read under its lock and, when tracking, the probe is
\* queried (sample = None: the probe yields nothing)
WTickPaused ==
    /\ resp' = [cmd |-> "tick", is_tracking |-> FALSE, sample |-> None]
    /\ UNCHANGED <<pluginVars, locks>>
    /\ wpc = "sleep" /\ slept >= TicksPerSec
    /\ ~is_tracking
    /\ offTicks' = IF offTicks < 2 THEN offTicks + 1 ELSE offTicks
    /\ tgl' = IF tgl.phase = "off" THEN [tgl EXCEPT !.sampled = TRUE] ELSE tgl
    /\ IF activity_start # None
       THEN /\ start' = activity_start
            /\ activity_start' = take(activity_start)
            /\ wpc' = "pause_save"
            /\ UNCHANGED <<last, slept>>
       ELSE /\ last' = clear(last)
            /\ wpc' = continue
            /\ slept' = 0
            /\ UNCHANGED <<start, activity_start>>
    /\ UNCHANGED <<now, adjusts, is_tracking, db, seq, cur, dropped, failed,
                   toggled>>

WTickTracking ==
    /\ UNCHANGED <<pluginVars, locks>>
    /\ \/ wpc = "sleep" /\ slept >= TicksPerSec /\ is_tracking
       \/ wpc = "probe"
    /\ \E sample \in {None} \cup {Some(s) : s \in ProbeSamples} :
          /\ resp' = [cmd |-> "tick", is_tracking |-> TRUE, sample |-> sample]
          /\ IF sample # None /\ changed(sample[1], last)
             THEN /\ cur' = sample
                  /\ IF activity_start # None
                     THEN /\ start' = activity_start
                          /\ activity_start' = take(activity_start)
                          /\ wpc' = "change_save"
                     ELSE /\ wpc' = "open"
                          /\ UNCHANGED <<start, activity_start>>
                  /\ UNCHANGED <<slept, tgl>>
             ELSE /\ slept' = 0
                  /\ wpc' = "sleep"
                  /\ tgl' = IF sample # None THEN TglSame(tgl) ELSE tgl
                  /\ activity_start' = IF sample = None
                                       THEN else_none(activity_start)
                                       ELSE activity_start
                  /\ UNCHANGED <<cur, start>>
    /\ UNCHANGED <<now, adjusts, is_tracking, db, seq, last, dropped, failed,
                   toggled, offTicks>>

\* save_activity(&state, &last_process, &last_title, last_domain, start)
WSave ==
    /\ UNCHANGED <<pluginVars, locks>>
    /\ wpc \in {"pause_save", "change_save"}
    /\ \E result \in db_execute(last, start[1], now) :
          /\ db' = IF result = Some("Ok")
                   THEN save_activity(db, seq, last, start[1], now)
                   ELSE db
          /\ dropped' = (dropped \/ result = None)
          /\ failed' = (failed \/ result = Some("Err"))
          /\ resp' = [cmd |-> "save_activity", result |-> result,
                      duration |-> num_seconds(now - start[1])]
          /\ IF result # None /\ discard(result[1]) = "panic"
             THEN /\ wpc' = "exited"
                  /\ UNCHANGED <<last, slept>>
             ELSE IF wpc = "pause_save"
             THEN /\ last' = clear(last)
                  /\ wpc' = continue
                  /\ slept' = 0
             ELSE /\ wpc' = "open"
                  /\ UNCHANGED <<last, slept>>
    /\ seq' = IF db' # db THEN seq + 1 ELSE seq
    /\ tgl' = TglEmit(tgl)
    /\ start' = None
    /\ UNCHANGED <<now, adjusts, is_tracking, activity_start, cur, toggled, offTicks>>

\* "Start new activity"
WOpen ==
    /\ resp' = NoResp
    /\ UNCHANGED <<pluginVars, locks>>
    /\ wpc = "open"
    /\ last' = cur[1]
    /\ activity_start' = fresh_start(now)
    /\ cur' = None
    /\ wpc' = "sleep"
    /\ slept' = 0
    /\ tgl' = TglOpen(tgl)
    /\ UNCHANGED <<now, adjusts, is_tracking, db, seq, start, dropped, failed,
                   toggled, offTicks>>

Next ==
    \/ Elapse
    \/ ClockBack
    \/ start_tracking
    \/ stop_tracking
    \/ IsTracking
    \/ WTickPaused
    \/ WTickTracking
    \/ WSave
    \/ WOpen

Spec == Init /\ [][Next]_vars

\* ------------------------------------------------------------ the store
\* The queries are functions of the table and the date.  They are checked on
\* tables of up to MaxStoreRows rows drawn from StoreRows: rows as
\* save_activity writes them (duration >= 1, process name not empty), around
\* a day boundary, with equal start times, with and without a domain; the
\* column domain is nullable TEXT and the table outlives a run, so a row with
\* an empty domain text is among them.
StoreRow(p, t, d, st, dur) ==
    [id |-> 0, process_name |-> p, window_title |-> t, domain |-> d,
     start_time |-> st,
     end_time |-> <<(Seconds(st) + dur) \div SecPerDay, (Seconds(st) + dur) % SecPerDay>>,
     duration_seconds |-> dur]

StoreRows ==
    { StoreRow("chrome.exe", "Bug report", Some("tracker.example.com"), <<0, SecPerDay - 1>>, 1),
      StoreRow("chrome.exe", "Bug report", Some("tracker.example.com"), <<1, 0>>, 2),
      StoreRow("Code.exe", "lib.rs", None, <<1, 0>>, 1),
      StoreRow("chrome.exe", "Docs", Some("docs.example.com"), <<1, SecPerDay - 1>>, 1),
      StoreRow("chrome.exe", "Bug report", None, <<1, SecPerDay - 1>>, 2),
      StoreRow("msedge.exe", "New tab", Some(""), <<1, 0>>, 1),
      StoreRow("Code.exe", "lib.rs", None, <<1, SecPerDay - 1>>, 2) }

Tables ==
    UNION {[1 .. n -> StoreRows] : n \in 0 .. MaxStoreRows}

InitStore ==
    /\ now = 0
    /\ adjusts = 0
    /\ slept = 0
    /\ is_tracking = run_default(FALSE)
    /\ \E t \in Tables : db = [i \in DOMAIN t |-> [t[i] EXCEPT !.id = i]]
    /\ seq = Len(db)
    /\ wpc = "sleep"
    /\ last = Cleared
    /\ activity_start = None
    /\ start = None
    /\ cur = None
    /\ dropped = FALSE
    /\ failed = FALSE
    /\ toggled = is_tracking
    /\ offTicks = 0
    /\ tgl = NoToggle
    /\ resp = NoResp
    /\ locks = Unlocked
    /\ InitRegistry(<<>>)

\* ----------------------------------------------------------------- queries
\* the dates a query is made for: the two days of StoreRows and the day after
Dates == 0 .. 2

GetActivities ==
    /\ \E date \in Dates : \E rs \in get_activities(db, date) :
          resp' = [cmd |-> "get_activities", date |-> date, result |-> rs]
    /\ UNCHANGED <<recorderVars, locks>>
    /\ UNCHANGED pluginVars

GetAppSummary ==
    /\ \E date \in Dates : \E rs \in get_app_summary(db, date) :
          resp' = [cmd |-> "get_app_summary", date |-> date, result |-> rs]
    /\ UNCHANGED <<recorderVars, locks>>
    /\ UNCHANGED pluginVars

GetDomainSummary ==
    /\ \E date \in Dates : \E rs \in get_domain_summary(db, date) :
          resp' = [cmd |-> "get_domain_summary", date |-> date, result |-> rs]
    /\ UNCHANGED <<recorderVars, locks>>
    /\ UNCHANGED pluginVars

NextStore ==
    \/ GetActivities
    \/ GetAppSummary
    \/ GetDomainSummary

SpecStore == InitStore /\ [][NextStore]_vars

\* ------------------------------------------------- plugin registry: steps
\* the complete list the running load is building, or the last finished one
Pending == IF ld.pc = "idle" THEN committed ELSE Complete(ld.config, loads)

\* load_from_config: let config = IntegrationsConfig::load(); the document
\* is edited outside the program and is any of Documents when it is read
LoadConfig ==
    /\ ld.pc = "idle" /\ loads < MaxLoads
    /\ \E doc \in Documents :
          ld' = [pc |-> "loaded", doc |-> doc,
                 config |-> IntegrationsConfig_load(doc), i |-> 1]
    /\ loads' = loads + 1
    /\ UNCHANGED <<plugins, writer, readers, tasks, committed, obs>>
    /\ resp' = NoResp
    /\ UNCHANGED <<recorderVars, locks>>

\* let mut plugins = self.plugins.write(); plugins.clear();
LoadClear ==
    /\ ld.pc = "loaded"
    /\ ~writer /\ readers = 0
    /\ plugins' = <<>>
    /\ writer' = guard_held
    /\ ld' = [ld EXCEPT !.pc = "loop"]
    /\ UNCHANGED <<readers, loads, tasks, committed, obs>>
    /\ resp' = NoResp
    /\ UNCHANGED <<recorderVars, locks>>

\* one iteration of `for entry in config.integrations`
LoadEntry ==
    /\ ld.pc = "loop" /\ ld.i <= Len(ld.config)
    /\ writer \/ readers = 0
    /\ plugins' = IF skipped(ld.config[ld.i])
                  THEN plugins
                  ELSE Append(plugins, RedmineIntegration_new(ld.config[ld.i], loads))
    /\ ld' = [ld EXCEPT !.i = ld.i + 1]
    /\ UNCHANGED <<writer, readers, loads, tasks, committed, obs>>
    /\ resp' = NoResp
    /\ UNCHANGED <<recorderVars, locks>>

\* Ok(()): the write guard is dropped
LoadReturn ==
    /\ ld.pc = "loop" /\ ld.i > Len(ld.config)
    /\ writer' = FALSE
    /\ committed' = Complete(ld.config, loads)
    /\ ld' = Idle
    /\ UNCHANGED <<plugins, readers, loads, tasks, obs>>
    /\ resp' = [cmd |-> "reload_plugins", doc |-> ld.doc, config |-> ld.config,
                result |-> "Ok"]
    /\ UNCHANGED <<recorderVars, locks>>

\* list_plugins / extract_all_ticket_ids: self.plugins.read() and the
\* iteration over the list under the read guard
ReadList(c) ==
    /\ tasks[c].pc = "idle"
    /\ ~writer
    /\ \E cmd \in {"list_plugins", "extract_all_ticket_ids"} :
          tasks' = [tasks EXCEPT ![c] =
                       [pc |-> "reading", cmd |-> cmd,
                        result |-> IF cmd = "list_plugins"
                                   THEN list_plugins(plugins) ELSE <<>>]]
    /\ readers' = readers + 1
    /\ UNCHANGED <<plugins, writer, loads, ld, committed, obs>>
    /\ resp' = NoResp
    /\ UNCHANGED <<recorderVars, locks>>

\* the read guard is dropped when the command returns
ReadDone(c) ==
    /\ tasks[c].pc = "reading"
    /\ readers' = readers - 1
    /\ tasks' = [tasks EXCEPT ![c] = Idle]
    /\ UNCHANGED <<plugins, writer, loads, ld, committed, obs>>
    /\ resp' = IF tasks[c].cmd = "list_plugins"
               THEN [cmd |-> "list_plugins", result |-> tasks[c].result]
               ELSE NoResp
    /\ UNCHANGED <<recorderVars, locks>>

\* sync_time_entry / test_connection: let plugin = self.get_plugin(name)
\* .ok_or_else(..)?; the read guard is a temporary of get_plugin
Resolve(c) ==
    /\ tasks[c].pc = "idle"
    /\ ~writer
    /\ \E cmd \in {"sync_time_entry", "test_connection"} :
       \E name \in {"redmine", "tracker"} :
          LET plugin == get_plugin(plugins, name) IN
          IF plugin = None
          THEN /\ obs' = [cmd |-> cmd, found |-> FALSE]
               /\ resp' = [cmd |-> cmd, plugin_name |-> name,
                           result |-> "Err: Plugin not found"]
               /\ UNCHANGED tasks
          ELSE /\ tasks' = [tasks EXCEPT ![c] =
                               [pc |-> "awaiting", cmd |-> cmd, plugin_name |-> name,
                                plugin |-> plugin[1]]]
               /\ resp' = NoResp
               /\ UNCHANGED obs
    /\ UNCHANGED <<plugins, writer, readers, loads, ld, committed>>
    /\ UNCHANGED <<recorderVars, locks>>

\* plugin.sync_time_entry(..).await / plugin.test_connection().await returns
Complete_await(c) ==
    /\ tasks[c].pc = "awaiting"
    /\ obs' = [cmd |-> tasks[c].cmd, plugin_name |-> tasks[c].plugin_name,
               found |-> TRUE,
               resolved |-> tasks[c].plugin,
               used |-> plugin_of(tasks[c], plugins)]
    /\ tasks' = [tasks EXCEPT ![c] = Idle]
    /\ UNCHANGED <<plugins, writer, readers, loads, ld, committed>>
    /\ resp' = NoResp
    /\ UNCHANGED <<recorderVars, locks>>

NextPlugins ==
    \/ LoadConfig
    \/ LoadClear
    \/ LoadEntry
    \/ LoadReturn
    \/ \E c \in Callers : ReadList(c)
    \/ \E c \in Callers : ReadDone(c)
    \/ \E c \in Callers : Resolve(c)
    \/ \E c \in Callers : Complete_await(c)

InitPlugins ==
    /\ now = 0
    /\ adjusts = 0
    /\ slept = 0
    /\ is_tracking = run_default(FALSE)
    /\ db = <<>>
    /\ seq = 0
    /\ wpc = "sleep"
    /\ last = Cleared
    /\ activity_start = None
    /\ start = None
    /\ cur = None
    /\ dropped = FALSE
    /\ failed = FALSE
    /\ toggled = is_tracking
    /\ offTicks = 0
    /\ tgl = NoToggle
    /\ resp = NoResp
    /\ locks = Unlocked
    /\ \E cfg \in Configs : InitRegistry(cfg)

SpecPlugins == InitPlugins /\ [][NextPlugins]_vars

\* ------------------------------------------------------- ticket extraction
\* Texts are sequences of tokens: a token is a character or a run of
\* characters that the patterns treat as a unit.  A pattern is a literal
\* token followed by a digit part: "(\\d+)" a capture group of one or more
\* digits, "(\\d*)" a capture group of any number of digits, "(\\d+)?" an
\* optional capture group, "\\d+" digits outside any group, "(\\d+" an
\* unbalanced group.

\* longest text the extraction is run on, in tokens
MaxText == 4

Digits == {"4", "7"}

Alphabet == {"#", "ISSUE-"} \cup Digits

Texts == UNION {[1 .. n -> Alphabet] : n \in 0 .. MaxText}

\* Regex::new(&rule.pattern): a pattern with an unbalanced group does not compile
Regex_new(pattern) == IF pattern.digits = "(\\d+" THEN None ELSE Some(pattern)

\* a construction that gives up its rules when one of them does not compile
compile_strict(rules) ==
    IF \A i \in DOMAIN rules : Regex_new(rules[i].pattern) # None
    THEN [i \in DOMAIN rules |-> [regex |-> rules[i].pattern, source |-> rules[i].source]]
    ELSE <<>>

\* RedmineIntegration::new: config.rules.iter().filter_map(|rule|
\* Regex::new(&rule.pattern).ok().map(|re| (re, rule.source.clone()))).collect()
compile(rules) ==
    LET ok == SelectSeq(rules, LAMBDA rule : Regex_new(rule.pattern) # None)
    IN [i \in DOMAIN ok |-> [regex |-> ok[i].pattern, source |-> ok[i].source]]

\* get_source_text
get_source_text(activity, source) ==
    CASE source = "window_title" -> activity.window_title
      [] source = "process_name" -> activity.process_name
      [] source = "domain" -> IF activity.domain = None THEN <<>> ELSE activity.domain[1]
      [] OTHER -> activity.window_title

RECURSIVE RunLen(_, _)
\* the number of digits the greedy digit part consumes from position i on
RunLen(text, i) ==
    IF i <= Len(text) /\ text[i] \in Digits THEN 1 + RunLen(text, i + 1) ELSE 0

\* the pattern matches with its literal at position i
MatchAt(regex, text, i) ==
    /\ text[i] = regex.lit
    /\ regex.digits \in {"(\\d+)", "\\d+"} => RunLen(text, i + 1) >= 1

\* Regex::captures: the leftmost match; get(1) is the text of the first
\* capture group, None when the pattern has no group or the group took no
\* part in the match
captures(regex, text) ==
    IF \E i \in DOMAIN text : MatchAt(regex, text, i)
    THEN LET i == CHOOSE k \in DOMAIN text :
                      /\ MatchAt(regex, text, k)
                      /\ \A j \in 1 .. k - 1 : ~MatchAt(regex, text, j)
             n == RunLen(text, i + 1)
         IN Some([get1 |-> IF regex.digits = "\\d+" \/ (regex.digits = "(\\d+)?" /\ n = 0)
                           THEN None
                           ELSE Some(SubSeq(text, i + 1, i + n))])
    ELSE None

RECURSIVE extract_ticket_id_last(_, _)
\* an extraction without the early return: the last rule that hits wins
extract_ticket_id_last(rules, activity) ==
    IF rules = <<>> THEN None
    ELSE LET rest == extract_ticket_id_last(Tail(rules), activity)
             caps == captures(Head(rules).regex,
                              get_source_text(activity, Head(rules).source))
         IN IF rest # None THEN rest
            ELSE IF caps # None /\ caps[1].get1 # None THEN Some(caps[1].get1[1])
            ELSE None

RECURSIVE extract_ticket_id(_, _)
\* RedmineIntegration::extract_ticket_id: the loop over self.rules
extract_ticket_id(rules, activity) ==
    IF rules = <<>> THEN None
    ELSE LET caps == captures(Head(rules).regex,
                              get_source_text(activity, Head(rules).source))
         IN IF caps # None /\ caps[1].get1 # None
            THEN Some(caps[1].get1[1])
            ELSE extract_ticket_id(Tail(rules), activity)

RECURSIVE extract_all_first_only(_, _)
\* an aggregation that returns at the first plugin that hits
extract_all_first_only(list, activity) ==
    IF list = <<>> THEN <<>>
    ELSE LET ticket_id == extract_ticket_id(Head(list).rules, activity)
         IN IF ticket_id # None
            THEN << <<Head(list).name, ticket_id[1]>> >>
            ELSE extract_all_first_only(Tail(list), activity)

RECURSIVE extract_all_ticket_ids(_, _)
\* PluginManager::extract_all_ticket_ids
extract_all_ticket_ids(list, activity) ==
    IF list = <<>> THEN <<>>
    ELSE LET ticket_id == extract_ticket_id(Head(list).rules, activity)
         IN (IF ticket_id # None
             THEN << <<Head(list).name, ticket_id[1]>> >>
             ELSE <<>>) \o extract_all_ticket_ids(Tail(list), activity)

\* an ExtractionRule of the configuration
Rule(lit, digits, source) == [pattern |-> [lit |-> lit, digits |-> digits], source |-> source]

\* the rule lists of the plugins the extraction is checked with
RuleLists ==
    { <<Rule("#", "(\\d+)", "window_title"), Rule("ISSUE-", "(\\d+)", "window_title")>>,
      <<Rule("ISSUE-", "(\\d+)", "window_title"), Rule("#", "(\\d+)", "window_title")>>,
      <<Rule("#", "(\\d*)", "window_title"), Rule("ISSUE-", "(\\d+)", "window_title")>>,
      <<Rule("ISSUE-", "(\\d+)?", "window_title"), Rule("#", "(\\d+)", "window_title")>>,
      <<Rule("#", "\\d+", "window_title"), Rule("ISSUE-", "(\\d+)", "domain")>>,
      <<Rule("#", "(\\d+", "window_title"), Rule("#", "(\\d+)", "process_name")>>,
      <<Rule("ISSUE-", "(\\d+)", "url")>>,
      <<>> }

\* RedmineIntegration::new(name, enabled, config) of an enabled entry
Constructed(name, rules) == [name |-> name, load |-> 0, rules |-> compile(rules)]

\* the active lists the extraction is checked with
PluginLists ==
    {<<>>}
        \cup {<<Constructed("redmine", r)>> : r \in RuleLists}
        \cup {<<Constructed("redmine", r), Constructed("tracker", q)>> :
                 r \in RuleLists, q \in RuleLists}

\* the rows the extraction is run on: any window title of Texts, with a
\* process name and a domain that hold no ticket or one each
ExtractRows ==
    {[id |-> 1, process_name |-> pd[1], window_title |-> t, domain |-> pd[2],
      start_time |-> <<0, 0>>, end_time |-> <<0, 1>>, duration_seconds |-> 1] :
        t \in Texts,
        pd \in {<< <<"Code.exe">>, None >>, << <<"#", "7">>, Some(<<"ISSUE-", "4">>) >>}}

InitExtract ==
    /\ now = 0
    /\ adjusts = 0
    /\ slept = 0
    /\ is_tracking = run_default(FALSE)
    /\ \E r \in ExtractRows : db = <<r>>
    /\ seq = 1
    /\ wpc = "sleep"
    /\ last = Cleared
    /\ activity_start = None
    /\ start = None
    /\ cur = None
    /\ dropped = FALSE
    /\ failed = FALSE
    /\ toggled = is_tracking
    /\ offTicks = 0
    /\ tgl = NoToggle
    /\ resp = NoResp
    /\ locks = Unlocked
    /\ \E list \in PluginLists : plugins = list
    /\ writer = FALSE
    /\ readers = 0
    /\ loads = 0
    /\ ld = Idle
    /\ tasks = [c \in Callers |-> Idle]
    /\ committed = plugins
    /\ obs = [cmd |-> "none"]

\* SELECT .. FROM activities WHERE id = ?1 with query_row: the row, or the
\* error QueryReturnedNoRows
query_row(rows, activity_id) ==
    IF \E i \in DOMAIN rows : rows[i].id = activity_id
    THEN Some(rows[CHOOSE i \in DOMAIN rows : rows[i].id = activity_id])
    ELSE None

\* a call of one active plugin's extract_ticket_id with a stored row
ExtractTicketId ==
    /\ \E i \in DOMAIN plugins : \E k \in DOMAIN db :
          resp' = [cmd |-> "extract_ticket_id", rules |-> plugins[i].rules,
                   activity |-> db[k],
                   result |-> extract_ticket_id(plugins[i].rules, db[k])]
    /\ UNCHANGED <<recorderVars, locks>>
    /\ UNCHANGED pluginVars

\* the command extract_ticket_ids(activity_id)
ExtractTicketIds ==
    /\ \E activity_id \in 1 .. Len(db) + 1 :
          LET activity == query_row(db, activity_id) IN
          resp' = [cmd |-> "extract_ticket_ids", activity_id |-> activity_id,
                   result |-> IF activity = None
                              THEN [err |-> "Query returned no rows"]
                              ELSE [ok |-> extract_all_ticket_ids(plugins, activity[1])]]
    /\ UNCHANGED <<recorderVars, locks>>
    /\ UNCHANGED pluginVars

\* the rule lists of the [integrations.rules] tables a reload may read: those
\* of RuleLists, and lists with patterns that do not compile at the start, in
\* the middle, at the end and throughout
ConfigRuleLists ==
    RuleLists \cup
    { <<Rule("#", "(\\d+)", "window_title"), Rule("ISSUE-", "(\\d+", "window_title"),
        Rule("ISSUE-", "(\\d+)", "domain")>>,
      <<Rule("ISSUE-", "(\\d+)", "window_title"), Rule("#", "(\\d+", "domain")>>,
      <<Rule("#", "(\\d+", "window_title"), Rule("ISSUE-", "(\\d+", "domain")>> }

\* load_from_config of a document with one enabled entry "redmine": the list
\* is cleared and the plugin RedmineIntegration::new constructs is pushed
LoadRules ==
    /\ \E rules \in ConfigRuleLists :
          /\ plugins' = <<Constructed("redmine", rules)>>
          /\ resp' = [cmd |-> "load_from_config", rules |-> rules, result |-> "Ok"]
    /\ committed' = plugins'
    /\ UNCHANGED <<writer, readers, loads, ld, tasks, obs>>
    /\ UNCHANGED <<recorderVars, locks>>

NextExtract ==
    \/ LoadRules
    \/ ExtractTicketId
    \/ ExtractTicketIds

SpecExtract == InitExtract /\ [][NextExtract]_vars

\* ------------------------------------------------------------ sync client
\* the ticket ids the frontend passes to sync_time_entry, as token sequences
TicketIds == {<<"4", "7">>, <<"7">>, <<>>, <<"#", "4">>}

DigitValue(d) == CASE d = "4" -> 4 [] d = "7" -> 7

RECURSIVE Decimal(_, _)
\* the value of the decimal digits of text after the prefix of value acc
Decimal(text, acc) ==
    IF text = <<>> THEN acc ELSE Decimal(Tail(text), 10 * acc + DigitValue(Head(text)))

\* a conversion that gives 0 for a text that is not a number
parse_lenient(ticket_id) ==
    IF ticket_id # <<>> /\ \A i \in DOMAIN ticket_id : ticket_id[i] \in Digits
    THEN Some(Decimal(ticket_id, 0))
    ELSE Some(0)

\* ticket_id.parse::<i64>(): Err for the empty text and for a text with a
\* character that is not a digit
parse(ticket_id) ==
    IF ticket_id # <<>> /\ \A i \in DOMAIN ticket_id : ticket_id[i] \in Digits
    THEN Some(Decimal(ticket_id, 0))
    ELSE None

\* the TimeEntryRequest of RedmineIntegration::sync_time_entry: hours is
\* duration_seconds as f64 / 3600.0, kept as the fraction num / den; spent_on
\* is the part of start_time before the 'T'
TimeEntryRequest(activity, issue_id) ==
    [method |-> "POST", path |-> "/time_entries.json",
     issue_id |-> issue_id,
     hours |-> [num |-> activity.duration_seconds, den |-> 3600],
     comments |-> <<activity.process_name, " - ", activity.window_title>>,
     spent_on |-> activity.start_time[1]]

\* what the remote service may answer with: the body is its text, with the
\* TimeEntryResponse and the CurrentUserResponse serde decodes from it
Bodies ==
    { [text |-> "{\"time_entry\":{\"id\":55}}", time_entry |-> Some([id |-> 55]),
       user |-> None],
      [text |-> "{\"user\":{\"id\":1,\"login\":\"admin\"}}", time_entry |-> None,
       user |-> Some([id |-> 1, login |-> "admin"])],
      [text |-> "", time_entry |-> None, user |-> None] }

Statuses == {201, 204, 401, 500}

\* how a request ends: send() fails, or a response arrives
Outcomes ==
    {[send |-> "error"]}
        \cup {[send |-> "response", status |-> st, body |-> b] :
                 st \in Statuses, b \in Bodies}

\* StatusCode::is_success
is_success(status) == 200 <= status /\ status <= 299

\* a client that sends the request again after a failed send
after_send_error_retry(requests) == IF requests < 2 THEN "send" ELSE "return"

\* .send().await.map_err(|e| format!("Network error: {}", e))?
after_send_error(requests) == "return"

\* RedmineIntegration::sync_time_entry from the end of send().await on
sync_time_entry_result(outcome) ==
    IF outcome.send = "error"
    THEN [err |-> [kind |-> "Network error"]]
    ELSE IF is_success(outcome.status)
    THEN IF outcome.body.time_entry = None
         THEN [err |-> [kind |-> "Failed to parse response"]]
         ELSE [ok |-> [success |-> TRUE,
                       message |-> <<"Created time entry #",
                                     ToString(outcome.body.time_entry[1].id)>>,
                       external_id |-> Some(ToString(outcome.body.time_entry[1].id))]]
    ELSE [err |-> [kind |-> "Redmine API error", status |-> outcome.status,
                   body |-> outcome.body.text]]

\* RedmineIntegration::test_connection from the end of send().await on
test_connection_result(outcome) ==
    IF outcome.send = "error"
    THEN [err |-> [kind |-> "Network error"]]
    ELSE IF is_success(outcome.status)
    THEN IF outcome.body.user = None
         THEN [err |-> [kind |-> "Failed to parse response"]]
         ELSE [ok |-> TRUE]
    ELSE [err |-> [kind |-> "Authentication failed", status |-> outcome.status]]

\* a block whose guard is bound in the enclosing function body
block_end_kept(holder) == holder

\* the end of the block `let activity = { let db = state.db.lock(); .. };`:
\* the guard db is dropped
block_end(holder) == None

\* the guards a task still holds are dropped when its command returns
Release(c) == [l \in DOMAIN locks |-> IF locks[l] = Some(c) THEN None ELSE locks[l]]

\* the rows sync_time_entry is called for
SyncRows ==
    { StoreRow("chrome.exe", "Bug report", Some("tracker.example.com"), <<1, 0>>, 2),
      StoreRow("Code.exe", "lib.rs", None, <<1, SecPerDay - 1>>, 1) }

InitSync ==
    /\ now = 0
    /\ adjusts = 0
    /\ slept = 0
    /\ is_tracking = run_default(FALSE)
    /\ \E r \in SyncRows : db = <<[r EXCEPT !.id = 1]>>
    /\ seq = 1
    /\ wpc = "sleep"
    /\ last = Cleared
    /\ activity_start = None
    /\ start = None
    /\ cur = None
    /\ dropped = FALSE
    /\ failed = FALSE
    /\ toggled = is_tracking
    /\ offTicks = 0
    /\ tgl = NoToggle
    /\ resp = NoResp
    /\ locks = Unlocked
    /\ \E cfg \in Configs : InitRegistry(cfg)

\* the command sync_time_entry(plugin_name, activity_id, ticket_id):
\* let db = state.db.lock();
SyncLock(c) ==
    /\ tasks[c].pc = "idle"
    /\ locks.db = None
    /\ locks' = [locks EXCEPT !.db = Some(c)]
    /\ \E plugin_name \in {"redmine", "tracker"} :
       \E activity_id \in 1 .. Len(db) + 1 :
       \E ticket_id \in TicketIds :
          tasks' = [tasks EXCEPT ![c] =
                       [pc |-> "locked", cmd |-> "sync_time_entry",
                        plugin_name |-> plugin_name, activity_id |-> activity_id,
                        ticket_id |-> ticket_id]]
    /\ resp' = NoResp
    /\ UNCHANGED <<plugins, writer, readers, loads, ld, committed, obs>>
    /\ UNCHANGED recorderVars

\* prepare, query_row and the end of the block: the row becomes `activity`,
\* or the error is returned
SyncQuery(c) ==
    /\ tasks[c].pc = "locked"
    /\ LET activity == query_row(db, tasks[c].activity_id) IN
       IF activity = None
       THEN /\ resp' = [cmd |-> "sync_time_entry", requests |-> 0, outcome |-> None,
                        result |-> [err |-> [kind |-> "Query returned no rows"]]]
            /\ tasks' = [tasks EXCEPT ![c] = Idle]
            /\ locks' = Release(c)
       ELSE /\ resp' = NoResp
            /\ tasks' = [tasks EXCEPT ![c] =
                            [pc |-> "resolve", cmd |-> "sync_time_entry",
                             plugin_name |-> tasks[c].plugin_name,
                             ticket_id |-> tasks[c].ticket_id,
                             activity |-> activity[1]]]
            /\ locks' = [locks EXCEPT !.db = block_end(locks.db)]
    /\ UNCHANGED <<plugins, writer, readers, loads, ld, committed, obs>>
    /\ UNCHANGED recorderVars

\* PluginManager::sync_time_entry and RedmineIntegration::sync_time_entry up
\* to send(): the plugin is resolved, the ticket id parsed, the request built
\* and sent
SyncSend(c) ==
    /\ tasks[c].pc = "resolve"
    /\ ~writer
    /\ LET plugin == get_plugin(plugins, tasks[c].plugin_name)
           issue_id == parse(tasks[c].ticket_id)
       IN IF plugin = None \/ issue_id = None
          THEN /\ resp' = [cmd |-> "sync_time_entry", requests |-> 0, outcome |-> None,
                           result |-> [err |-> [kind |-> IF plugin = None
                                                         THEN "Plugin not found"
                                                         ELSE "Invalid ticket ID"]]]
               /\ tasks' = [tasks EXCEPT ![c] = Idle]
               /\ locks' = Release(c)
          ELSE /\ resp' = NoResp
               /\ tasks' = [tasks EXCEPT ![c] =
                               [pc |-> "awaiting", cmd |-> "sync_time_entry",
                                plugin |-> plugin[1],
                                request |-> TimeEntryRequest(tasks[c].activity, issue_id[1]),
                                requests |-> 1]]
               /\ UNCHANGED locks
    /\ UNCHANGED <<plugins, writer, readers, loads, ld, committed, obs>>
    /\ UNCHANGED recorderVars

\* the command test_plugin_connection(plugin_name) up to send()
TestSend(c) ==
    /\ tasks[c].pc = "idle"
    /\ ~writer
    /\ \E plugin_name \in {"redmine", "tracker"} :
          LET plugin == get_plugin(plugins, plugin_name) IN
          IF plugin = None
          THEN /\ resp' = [cmd |-> "test_connection", requests |-> 0, outcome |-> None,
                           result |-> [err |-> [kind |-> "Plugin not found"]]]
               /\ UNCHANGED tasks
          ELSE /\ resp' = NoResp
               /\ tasks' = [tasks EXCEPT ![c] =
                               [pc |-> "awaiting", cmd |-> "test_connection",
                                plugin |-> plugin[1],
                                request |-> [method |-> "GET", path |-> "/users/current.json"],
                                requests |-> 1]]
    /\ UNCHANGED <<plugins, writer, readers, loads, ld, committed, obs, locks>>
    /\ UNCHANGED recorderVars

\* send().await ends and the command returns its result
Response(c) ==
    /\ tasks[c].pc = "awaiting"
    /\ \E outcome \in Outcomes :
          IF outcome.send = "error" /\ after_send_error(tasks[c].requests) = "send"
          THEN /\ tasks' = [tasks EXCEPT ![c].requests = @ + 1]
               /\ resp' = NoResp
               /\ UNCHANGED locks
          ELSE /\ resp' = [cmd |-> tasks[c].cmd, requests |-> tasks[c].requests,
                           outcome |-> Some(outcome),
                           result |-> IF tasks[c].cmd = "sync_time_entry"
                                      THEN sync_time_entry_result(outcome)
                                      ELSE test_connection_result(outcome)]
               /\ tasks' = [tasks EXCEPT ![c] = Idle]
               /\ locks' = Release(c)
    /\ UNCHANGED <<plugins, writer, readers, loads, ld, committed, obs>>
    /\ UNCHANGED recorderVars

NextSync ==
    \/ \E c \in Callers : SyncLock(c)
    \/ \E c \in Callers : SyncQuery(c)
    \/ \E c \in Callers : SyncSend(c)
    \/ \E c \in Callers : TestSend(c)
    \/ \E c \in Callers : Response(c)

SpecSync == InitSync /\ [][NextSync]_vars

\* ------------------------------------------------------------------ locks
\* Every operation as the sequence of its steps that take or drop a guard:
\* "lock m" / "unlock m" for the parking_lot Mutex m of AppState, "read" /
\* "unread" and "write" / "unwrite" for the RwLock of PluginManager, "await"
\* for the .await of the HTTP request.  An operation has one sequence for
\* each way through its early returns.  What the operations compute between
\* these steps is the subject of the other specifications.

\* the threads: the watcher thread and the tasks that run the commands
Threads == Callers \cup {"watcher"}

\* start_tracking, stop_tracking, is_tracking: the guard is_tracking lives to
\* the end of the function (of the expression in is_tracking)
tracking_locks == {<<"lock is_tracking", "unlock is_tracking">>}

\* get_activities, get_app_summary, get_domain_summary: let db =
\* state.db.lock(); held to the return
query_locks == {<<"lock db", "unlock db">>}

\* list_plugins: self.plugins.read() as a temporary of the iterator chain
list_plugins_locks == {<<"read", "unread">>}

\* a load that queries the store while it holds the write guard
load_from_config_locks_store == {<<"write", "lock db", "unlock db", "unwrite">>}

\* load_from_config: let mut plugins = self.plugins.write(); held to the
\* return; the configuration is read before it
load_from_config_locks == {<<"write", "unwrite">>}

\* extract_ticket_ids: let db = state.db.lock(); is held to the return, over
\* the early returns of prepare / query_row and over extract_all_ticket_ids,
\* which iterates under self.plugins.read()
extract_ticket_ids_locks ==
    { <<"lock db", "unlock db">>,
      <<"lock db", "read", "unread", "unlock db">> }

\* sync_time_entry: the guard db is dropped at the end of the block, or at an
\* early return from it; get_plugin takes self.plugins.read() as a temporary;
\* the request is awaited after that
sync_time_entry_locks ==
    { <<"lock db", "unlock db">>,
      <<"lock db", "unlock db", "read", "unread">>,
      <<"lock db", "unlock db", "read", "unread", "await">> }

\* test_plugin_connection: get_plugin, then the awaited request
test_connection_locks ==
    { <<"read", "unread">>,
      <<"read", "unread", "await">> }

\* one iteration of the watcher loop: the guard of `!*state.is_tracking
\* .lock()` is a temporary of the if condition, dropped before the branch
\* runs; save_activity locks db unless it returns early
tick_locks ==
    { <<"lock is_tracking", "unlock is_tracking">>,
      <<"lock is_tracking", "unlock is_tracking", "lock db", "unlock db">> }

\* the commands of the invoke handler that take a lock
Commands ==
    {"start_tracking", "stop_tracking", "is_tracking", "get_activities",
     "get_app_summary", "get_domain_summary", "get_plugins", "reload_plugins",
     "extract_ticket_ids", "sync_time_entry", "test_plugin_connection"}

\* the step sequences of an operation
Paths(cmd) ==
    CASE cmd \in {"start_tracking", "stop_tracking", "is_tracking"} -> tracking_locks
      [] cmd \in {"get_activities", "get_app_summary", "get_domain_summary"} -> query_locks
      [] cmd = "get_plugins" -> list_plugins_locks
      [] cmd = "reload_plugins" -> load_from_config_locks
      [] cmd = "extract_ticket_ids" -> extract_ticket_ids_locks
      [] cmd = "sync_time_entry" -> sync_time_entry_locks
      [] cmd = "test_plugin_connection" -> test_connection_locks
      [] cmd = "tick" -> tick_locks

\* the operations a thread runs
Runs(t) == IF t = "watcher" THEN {"tick"} ELSE Commands

\* the step the thread is at
At(t) == IF tasks[t].pc = "running" THEN Head(tasks[t].prog) ELSE "none"

\* the rest of the operation after its current step; the thread is idle
\* again after the last one
Advance(t, held) ==
    IF Len(tasks[t].prog) = 1
    THEN [tasks EXCEPT ![t] = Idle]
    ELSE [tasks EXCEPT ![t] = [tasks[t] EXCEPT !.prog = Tail(tasks[t].prog),
                                              !.held = held]]

InitLocks ==
    /\ now = 0
    /\ adjusts = 0
    /\ slept = 0
    /\ is_tracking = run_default(FALSE)
    /\ db = <<>>
    /\ seq = 0
    /\ wpc = "sleep"
    /\ last = Cleared
    /\ activity_start = None
    /\ start = None
    /\ cur = None
    /\ dropped = FALSE
    /\ failed = FALSE
    /\ toggled = is_tracking
    /\ offTicks = 0
    /\ tgl = NoToggle
    /\ resp = NoResp
    /\ locks = Unlocked
    /\ plugins = <<>>
    /\ writer = FALSE
    /\ readers = 0
    /\ loads = 0
    /\ ld = Idle
    /\ tasks = [t \in Threads |-> Idle]
    /\ committed = <<>>
    /\ obs = [cmd |-> "none"]

\* what the steps of this specification leave alone
lockFrame == <<recorderVars, resp, plugins, loads, ld, committed, obs>>

\* a command is invoked, or the watcher's sleep ends
Call(t) ==
    /\ tasks[t].pc = "idle"
    /\ \E cmd \in Runs(t) : \E path \in Paths(cmd) :
          tasks' = [tasks EXCEPT ![t] =
                       [pc |-> "running", cmd |-> cmd, prog |-> path, held |-> {}]]
    /\ UNCHANGED <<locks, writer, readers>>
    /\ UNCHANGED lockFrame

\* Mutex::lock returns: the mutex was free
Lock(t) ==
    /\ \E m \in DOMAIN locks :
          /\ At(t) = "lock " \o m
          /\ locks[m] = None
          /\ locks' = [locks EXCEPT ![m] = Some(t)]
          /\ tasks' = Advance(t, tasks[t].held \cup {m})
    /\ UNCHANGED <<writer, readers>>
    /\ UNCHANGED lockFrame

\* the MutexGuard is dropped
Unlock(t) ==
    /\ \E m \in DOMAIN locks :
          /\ At(t) = "unlock " \o m
          /\ locks' = [locks EXCEPT ![m] = None]
          /\ tasks' = Advance(t, tasks[t].held \ {m})
    /\ UNCHANGED <<writer, readers>>
    /\ UNCHANGED lockFrame

\* RwLock::read returns: no write guard is held, and no thread waits in
\* RwLock::write (parking_lot's RwLock makes new readers wait behind a
\* waiting writer)
Read(t) ==
    /\ At(t) = "read"
    /\ ~writer
    /\ \A u \in Threads : At(u) # "write"
    /\ readers' = readers + 1
    /\ tasks' = Advance(t, tasks[t].held \cup {"read"})
    /\ UNCHANGED <<locks, writer>>
    /\ UNCHANGED lockFrame

\* the RwLockReadGuard is dropped
Unread(t) ==
    /\ At(t) = "unread"
    /\ readers' = readers - 1
    /\ tasks' = Advance(t, tasks[t].held \ {"read"})
    /\ UNCHANGED <<locks, writer>>
    /\ UNCHANGED lockFrame

\* RwLock::write returns: no guard of the RwLock is held
Write(t) ==
    /\ At(t) = "write"
    /\ ~writer /\ readers = 0
    /\ writer' = TRUE
    /\ tasks' = Advance(t, tasks[t].held \cup {"write"})
    /\ UNCHANGED <<locks, readers>>
    /\ UNCHANGED lockFrame

\* the RwLockWriteGuard is dropped
Unwrite(t) ==
    /\ At(t) = "unwrite"
    /\ writer' = FALSE
    /\ tasks' = Advance(t, tasks[t].held \ {"write"})
    /\ UNCHANGED <<locks, readers>>
    /\ UNCHANGED lockFrame

\* the awaited request ends
Await(t) ==
    /\ At(t) = "await"
    /\ tasks' = Advance(t, tasks[t].held)
    /\ UNCHANGED <<locks, writer, readers>>
    /\ UNCHANGED lockFrame

\* a step of thread t that takes or drops a guard
Guarding(t) ==
    \/ Lock(t)
    \/ Unlock(t)
    \/ Read(t)
    \/ Unread(t)
    \/ Write(t)
    \/ Unwrite(t)

NextLocks ==
    \/ \E t \in Threads : Call(t)
    \/ \E t \in Threads : Lock(t)
    \/ \E t \in Threads : Unlock(t)
    \/ \E t \in Threads : Read(t)
    \/ \E t \in Threads : Unread(t)
    \/ \E t \in Threads : Write(t)
    \/ \E t \in Threads : Unwrite(t)
    \/ \E t \in Threads : Await(t)

SpecLocks == InitLocks /\ [][NextLocks]_vars

\* a running thread goes on running, and parking_lot's locks are eventually
\* fair: a thread that finds the lock free again and again gets it.  No
\* fairness for Call (a command need not be invoked) and none for Await (a
\* request need not be answered).
Fairness == \A t \in Threads : SF_vars(Guarding(t))

SpecLocksFair == SpecLocks /\ Fairness

\* =================================================================== claims

\* each stored interval starts no earlier than the end of the one stored before
Ordered(rows) ==
    \A i \in 1 .. Len(rows) - 1 : TextLeq(rows[i].end_time, rows[i + 1].start_time)

\* C1 (as stated): the intervals the sampling loop persists during one run
\* never overlap and are in start-time order: each stored interval starts no
\* earlier than the end of the interval stored before it.
C1_Original == Ordered(db)

\* C1 (amended): as long as the wall clock has not been stepped backward
\* during the run, each stored interval starts no earlier than the end of the
\* interval stored before it.
C1_Theorem == adjusts = 0 => Ordered(db)

C1_Witness == adjusts = 0 /\ Len(db) >= 2

\* C2: every stored row has duration_seconds >= 1; an interval whose computed
\* duration is below one second is dropped and never stored.
C2_Theorem == \A i \in 1 .. Len(db) : db[i].duration_seconds >= 1

C2_Witness == dropped /\ Len(db) >= 1

PausedTickDone == ~is_tracking /\ offTicks >= 1 /\ wpc = "sleep"

\* C4: once stop_tracking has flipped the toggle and tracking is not
\* re-enabled, the first tick that begins after the flip closes the Open
\* interval and leaves the recorder Idle, and no later tick opens or stores an
\* interval while tracking stays disabled.
C4_Theorem ==
    /\ [](PausedTickDone =>
             /\ activity_start = None /\ last = Cleared
             /\ tgl.phase = "off" => (tgl.sampled /\ tgl.emitted = 1))
    /\ [][(PausedTickDone /\ ~is_tracking') =>
             (db' = db /\ activity_start' = None /\ last' = Cleared)]_vars

C4_Witness ==
    PausedTickDone /\ offTicks = 2 /\ tgl.phase = "off" /\ Len(db) >= 1

\* C5: stored rows are append-only and immutable: no step changes or removes
\* a stored row, and every new row gets an id larger than every id assigned
\* before it.
C5_Theorem ==
    [][/\ Len(db') >= Len(db)
       /\ SubSeq(db', 1, Len(db)) = db
       /\ \A i \in Len(db) + 1 .. Len(db') :
             /\ db'[i].id > seq
             /\ \A j \in 1 .. i - 1 : db'[j].id < db'[i].id]_vars

C5_Witness == Len(db) >= 2 /\ ~is_tracking

\* C6: for every stored row, duration_seconds equals the stored end timestamp
\* minus the stored start timestamp, and the stored end timestamp is at least
\* one second after the stored start timestamp.
C6_Original ==
    \A i \in 1 .. Len(db) :
        /\ db[i].duration_seconds = Seconds(db[i].end_time) - Seconds(db[i].start_time)
        /\ Seconds(db[i].end_time) >= Seconds(db[i].start_time) + 1

\* the stored rows whose start timestamp is on the day `date`
OnDay(date) == {r \in RowSet(db) : r.start_time[1] = date}

\* the rows of OnDay(date) that carry a domain
OnDayWithDomain(date) == {r \in OnDay(date) : r.domain \notin {None, Some("")}}

Elements(f) == {f[i] : i \in DOMAIN f}

\* C7: get_activities(date) returns exactly the stored intervals whose start
\* timestamp lies between date 00:00:00 and date 23:59:59 inclusive, in
\* ascending start-time order.
C7_Theorem ==
    resp.cmd = "get_activities" =>
        /\ Elements(resp.result) = OnDay(resp.date)
        /\ Len(resp.result) = Cardinality(OnDay(resp.date))
        /\ \A i \in 1 .. Len(resp.result) - 1 :
              Seconds(resp.result[i].start_time) <= Seconds(resp.result[i + 1].start_time)

\* a table with an interval starting at 23:59:59 of day 0 and one starting at
\* 00:00:00 of day 1, queried for day 0
C7_Witness ==
    /\ resp.cmd = "get_activities" /\ resp.date = 0
    /\ \E r \in RowSet(db) : r.start_time = <<0, SecPerDay - 1>>
    /\ \E r \in RowSet(db) : r.start_time = <<1, 0>>
    /\ Len(resp.result) >= 1
    /\ \A i \in DOMAIN resp.result : resp.result[i].start_time = <<0, SecPerDay - 1>>

\* the rows a summary command groups, and the key it groups them by
Grouped(cmd, date) ==
    IF cmd = "get_app_summary" THEN OnDay(date) ELSE OnDayWithDomain(date)

KeyOf(cmd, r) == IF cmd = "get_app_summary" THEN r.process_name ELSE r.domain[1]

RECURSIVE Total(_)
Total(S) ==
    IF S = {} THEN 0
    ELSE LET r == CHOOSE x \in S : TRUE IN r.duration_seconds + Total(S \ {r})

\* C8: get_app_summary / get_domain_summary group the day's intervals by
\* process name / domain, report each group once with the sum of its members'
\* durations, in descending order of total; the domain summary leaves out the
\* intervals with a null or empty domain, and a day with a single
\* domain-bearing interval yields one row with its duration and percentage 100.
C8_Theorem ==
    resp.cmd \in {"get_app_summary", "get_domain_summary"} =>
        LET rows == Grouped(resp.cmd, resp.date)
            keys == {KeyOf(resp.cmd, r) : r \in rows}
            res == resp.result
        IN /\ {res[i].key : i \in DOMAIN res} = keys
           /\ Len(res) = Cardinality(keys)
           /\ \A i \in DOMAIN res :
                 res[i].total_seconds =
                     Total({r \in rows : KeyOf(resp.cmd, r) = res[i].key})
           /\ \A i \in 1 .. Len(res) - 1 : res[i].total_seconds >= res[i + 1].total_seconds
           /\ (resp.cmd = "get_domain_summary" /\ Cardinality(rows) = 1) =>
                 /\ Len(res) = 1
                 /\ \A r \in rows : res[1].total_seconds = r.duration_seconds
                 /\ res[1].percentage.num = 100 * res[1].percentage.den

\* a day with one domain-bearing interval beside intervals with a null and
\* with an empty domain
C8_Witness ==
    /\ resp.cmd = "get_domain_summary"
    /\ Cardinality(OnDayWithDomain(resp.date)) = 1
    /\ \E r \in OnDay(resp.date) : r.domain = None
    /\ \E r \in OnDay(resp.date) : r.domain = Some("")
    /\ Len(resp.result) = 1

RECURSIVE SumNum(_)
SumNum(res) == IF res = <<>> THEN 0 ELSE Head(res).percentage.num + SumNum(Tail(res))

\* C9: the percentages of a summary are each the group's share of the grouped
\* total and sum to 100 when the grouped total is > 0; the result is empty
\* when no interval exists for that day.
C9_Theorem ==
    resp.cmd \in {"get_app_summary", "get_domain_summary"} =>
        LET res == resp.result
            grouped == Total(Grouped(resp.cmd, resp.date))
        IN /\ grouped > 0 =>
                 /\ \A i \in DOMAIN res :
                       /\ res[i].percentage.den = grouped
                       /\ res[i].percentage.num = 100 * res[i].total_seconds
                 /\ SumNum(res) = 100 * grouped
           /\ OnDay(resp.date) = {} => res = <<>>

\* a summary of three groups with different totals
C9_Witness ==
    /\ resp.cmd = "get_app_summary"
    /\ Len(resp.result) >= 2
    /\ resp.result[1].total_seconds > resp.result[2].total_seconds
    /\ \E d \in Dates : d # resp.date /\ OnDay(d) = {}

\* C10: a reload is atomic for concurrent callers: whenever list_plugins,
\* extract_all_ticket_ids, sync_time_entry or test_connection can read the
\* list (no write guard is held), the list is the complete list of the last
\* finished load or the complete list of the load under way, never a cleared
\* or half rebuilt one; and a sync that resolved its plugin before a reload
\* completes against that same instance.
C10_Theorem ==
    /\ ~writer => (plugins = committed \/ plugins = Pending)
    /\ readers > 0 => ~writer
    /\ (obs.cmd # "none" /\ obs.found) => obs.used = obs.resolved

\* a sync_time_entry that returned after a reload had replaced the two
\* plugins of the list it resolved its plugin from
C10_Witness ==
    /\ obs.cmd = "sync_time_entry" /\ obs.found
    /\ loads = 1 /\ ld.pc = "idle"
    /\ Len(plugins) = 2
    /\ obs.used.load = 0
    /\ \A i \in DOMAIN plugins : plugins[i] # obs.used

RECURSIVE EnabledNames(_)
\* the names of the enabled entries of a configuration, in its order
EnabledNames(cfg) ==
    IF cfg = <<>> THEN <<>>
    ELSE IF Head(cfg).enabled
         THEN <<Head(cfg).name>> \o EnabledNames(Tail(cfg))
         ELSE EnabledNames(Tail(cfg))

\* C12: when load_from_config has returned, the active list holds one plugin
\* instance, constructed by this load, for each enabled entry of the
\* configuration it read, in configuration order, and none for a disabled
\* entry; list_plugins returns the names of the active plugins in that order.
C12_Theorem ==
    /\ resp.cmd = "reload_plugins" =>
          /\ [i \in DOMAIN plugins |-> plugins[i].name] = EnabledNames(resp.config)
          /\ \A i \in DOMAIN plugins : plugins[i].load = loads
    /\ resp.cmd = "list_plugins" =>
          /\ resp.result = [i \in DOMAIN plugins |-> plugins[i].name]
          /\ resp.result = [i \in DOMAIN committed |-> committed[i].name]

\* a load of a configuration with a disabled entry before an enabled one
C12_Witness ==
    /\ resp.cmd = "reload_plugins"
    /\ Len(resp.config) = 2
    /\ ~resp.config[1].enabled /\ resp.config[2].enabled
    /\ Len(plugins) = 1 /\ plugins[1].name = resp.config[2].name

RECURSIVE Constructible(_)
\* the names of the enabled tables of a document from which a plugin can be
\* constructed (the settings are complete), in the document's order
Constructible(es) ==
    IF es = <<>> THEN <<>>
    ELSE IF Head(es).enabled /\ Head(es).url
         THEN <<Head(es).name>> \o Constructible(Tail(es))
         ELSE Constructible(Tail(es))

\* C13: when no plugin can be constructed from one enabled entry of the
\* document, only that entry is dropped: the load still loads every other
\* enabled entry of the document and returns success.
C13_Original ==
    (resp.cmd = "reload_plugins" /\ resp.doc.file = "toml") =>
        /\ [i \in DOMAIN plugins |-> plugins[i].name] = Constructible(resp.doc.integrations)
        /\ resp.result = "Ok"

\* the document is missing, unreadable or does not parse
Faulty(doc) ==
    doc.file # "toml" \/ \E i \in DOMAIN doc.integrations : ~doc.integrations[i].url

\* C14: a missing, unreadable or malformed configuration document is not
\* fatal: the load reads the default configuration (no integrations), leaves
\* no active plugin and returns success.
C14_Theorem ==
    (resp.cmd = "reload_plugins" /\ Faulty(resp.doc)) =>
        /\ resp.config = <<>>
        /\ plugins = <<>>
        /\ resp.result = "Ok"

\* a reload that found the file unreadable while a sync resolved against the
\* list of the load before was still in flight
C14_Witness ==
    /\ resp.cmd = "reload_plugins" /\ resp.doc.file = "unreadable"
    /\ \E c \in Callers : tasks[c].pc = "awaiting"

\* C15: sync_time_entry and test_connection return the not-found error when
\* no plugin of the active list has the given name at the moment the name is
\* resolved, and otherwise go on with, and complete against, a plugin of the
\* list that has that name.
C15_Theorem ==
    /\ []((obs.cmd # "none" /\ obs.found) => obs.used.name = obs.plugin_name)
    /\ [][/\ \A c \in Callers :
              \/ ~(tasks[c].pc = "idle" /\ tasks'[c].pc = "awaiting")
              \/ /\ tasks'[c].plugin.name = tasks'[c].plugin_name
                 /\ \E i \in DOMAIN plugins : plugins[i] = tasks'[c].plugin
           /\ \/ resp'.cmd \notin {"sync_time_entry", "test_connection"}
              \/ resp'.result # "Err: Plugin not found"
              \/ \A i \in DOMAIN plugins : plugins[i].name # resp'.plugin_name]_vars

\* a test_connection for a name that no plugin of a non-empty list has, after
\* a sync for a name that was found
C15_Witness ==
    /\ resp.cmd = "test_connection" /\ resp.result = "Err: Plugin not found"
    /\ Len(plugins) >= 1
    /\ \E c \in Callers : tasks[c].pc = "awaiting" /\ tasks[c].cmd = "sync_time_entry"

\* what rule i of the compiled list `rules` captures in the record: None when
\* its pattern does not match its source field, else <<get1>>
Captured(rules, activity, i) ==
    captures(rules[i].regex, get_source_text(activity, rules[i].source))

\* the least member of a non-empty set of rule numbers
Earliest(S) == CHOOSE i \in S : \A j \in S : i <= j

\* C16 (as stated): the result of extract_ticket_id is the first capture group
\* of the earliest rule, in configured order, whose pattern matches the text
\* of its source field, whatever the later rules match; it is `no ticket
\* found` when no rule matches.
C16_Original ==
    resp.cmd = "extract_ticket_id" =>
        LET matching == {i \in DOMAIN resp.rules :
                            Captured(resp.rules, resp.activity, i) # None}
        IN IF matching = {}
           THEN resp.result = None
           ELSE resp.result = Captured(resp.rules, resp.activity, Earliest(matching))[1].get1

\* C16 (amended): the result of extract_ticket_id is the first capture group
\* of the earliest rule, in configured order, whose pattern matches the text
\* of its source field with the first capture group taking part in the match,
\* whatever the later rules match; a rule whose pattern matches without a
\* first capture group is passed over; the result is `no ticket found` when
\* there is no such rule.
C16_Theorem ==
    resp.cmd = "extract_ticket_id" =>
        LET capturing == {i \in DOMAIN resp.rules :
                             /\ Captured(resp.rules, resp.activity, i) # None
                             /\ Captured(resp.rules, resp.activity, i)[1].get1 # None}
        IN IF capturing = {}
           THEN resp.result = None
           ELSE resp.result = Captured(resp.rules, resp.activity, Earliest(capturing))[1].get1

\* rules [#(\d+), ISSUE-(\d+)] on a title with #4 before ISSUE-7 give "4"
C16_Witness ==
    /\ resp.cmd = "extract_ticket_id"
    /\ resp.activity.window_title = <<"#", "4", "ISSUE-", "7">>
    /\ resp.rules = compile(<<Rule("#", "(\\d+)", "window_title"),
                              Rule("ISSUE-", "(\\d+)", "window_title")>>)
    /\ resp.result = Some(<<"4">>)

\* C17: extract_ticket_id never returns an empty ticket identifier: a rule
\* whose pattern matches with an empty or absent first capture group does not
\* win, and the result is the capture of the earliest rule with a non-empty
\* first capture group.
C17_Original ==
    resp.cmd = "extract_ticket_id" =>
        LET winning == {i \in DOMAIN resp.rules :
                           /\ Captured(resp.rules, resp.activity, i) # None
                           /\ Captured(resp.rules, resp.activity, i)[1].get1
                                 \notin {None, Some(<<>>)}}
        IN /\ resp.result # Some(<<>>)
           /\ IF winning = {}
              THEN resp.result = None
              ELSE resp.result = Captured(resp.rules, resp.activity, Earliest(winning))[1].get1

\* C18: extract_all_ticket_ids returns one (plugin name, ticket id) pair for
\* each active plugin whose extract_ticket_id hits on the record, in list
\* order, and no pair for a plugin without a hit.
C18_Theorem ==
    (resp.cmd = "extract_ticket_ids" /\ "ok" \in DOMAIN resp.result) =>
        LET activity == query_row(db, resp.activity_id)[1]
            pairs == resp.result.ok
            hits == {i \in DOMAIN plugins :
                        extract_ticket_id(plugins[i].rules, activity) # None}
        IN /\ Len(pairs) = Cardinality(hits)
           /\ \A i \in hits :
                 \E k \in DOMAIN pairs :
                    /\ pairs[k] = <<plugins[i].name,
                                    extract_ticket_id(plugins[i].rules, activity)[1]>>
                    /\ k = Cardinality({j \in hits : j <= i})

\* two active plugins that both hit, with different ticket ids
C18_Witness ==
    /\ resp.cmd = "extract_ticket_ids" /\ "ok" \in DOMAIN resp.result
    /\ Len(resp.result.ok) = 2
    /\ resp.result.ok[1][2] # resp.result.ok[2][2]

\* task c holds the guard of the store or of the tracking toggle
HoldsLock(c) == \E l \in DOMAIN locks : locks[l] = Some(c)

\* C11: while a task has a network request of sync_time_entry or
\* test_connection in flight it holds neither the store lock nor the
\* tracking-state lock; the activity record is read with the store lock held
\* and the lock is released before the plugin is resolved and the request is
\* sent.
C11_Theorem ==
    \A c \in Callers :
        /\ tasks[c].pc = "awaiting" => ~HoldsLock(c)
        /\ tasks[c].pc = "resolve" => ~HoldsLock(c)
        /\ tasks[c].pc = "locked" => locks.db = Some(c)

\* one task awaits the answer to its sync request while the other holds the
\* store lock to read its record
C11_Witness ==
    \E c, d \in Callers :
        /\ tasks[c].pc = "awaiting" /\ tasks[c].cmd = "sync_time_entry"
        /\ tasks[d].pc = "locked" /\ locks.db = Some(d)

\* C19: sync_time_entry returns a successful SyncResult with the external
\* identifier whenever the remote service answers with a 2xx status, and a
\* failure carrying the remote status and body for every other status.
C19_Original ==
    (resp.cmd = "sync_time_entry" /\ resp.outcome # None
        /\ resp.outcome[1].send = "response") =>
        IF is_success(resp.outcome[1].status)
        THEN /\ "ok" \in DOMAIN resp.result
             /\ resp.result.ok.success
             /\ resp.result.ok.external_id # None
        ELSE /\ "err" \in DOMAIN resp.result
             /\ resp.result.err.status = resp.outcome[1].status
             /\ resp.result.err.body = resp.outcome[1].body.text

\* C20: a sync_time_entry or test_connection call sends at most one request:
\* a request is never in flight after an earlier one of the same call, and a
\* call whose request failed to send or was answered with an error status
\* returns that failure after exactly one request.
C20_Theorem ==
    /\ \A c \in Callers : tasks[c].pc = "awaiting" => tasks[c].requests = 1
    /\ resp.cmd \in {"sync_time_entry", "test_connection"} =>
          /\ resp.requests <= 1
          /\ resp.outcome # None =>
                /\ resp.requests = 1
                /\ (\/ resp.outcome[1].send = "error"
                    \/ ~is_success(resp.outcome[1].status)) =>
                      "err" \in DOMAIN resp.result

\* a test_connection whose request failed to send, returned while the other
\* task has a sync request in flight
C20_Witness ==
    /\ resp.cmd = "test_connection" /\ resp.outcome # None
    /\ resp.outcome[1].send = "error"
    /\ resp.result = [err |-> [kind |-> "Network error"]]
    /\ \E c \in Callers : tasks[c].pc = "awaiting" /\ tasks[c].cmd = "sync_time_entry"

\* C21: the sampling loop never terminates on error: when the INSERT of an
\* emission fails the record is dropped and the write is not tried again, the
\* recorder still makes its transition (it goes Idle at a pause, it goes on
\* to open the next interval at a change), and the loop goes on ticking.
C21_Theorem ==
    /\ [](wpc # "exited")
    /\ [][(resp'.cmd = "save_activity" /\ resp'.result = Some("Err")) =>
             /\ db' = db
             /\ start' = None
             /\ IF wpc = "pause_save"
                THEN wpc' = "sleep" /\ activity_start' = None /\ last' = Cleared
                ELSE wpc' = "open" /\ cur' = cur /\ cur # None]_vars

\* an interval is stored, the first of the table, after the INSERT of an
\* earlier one had failed
C21_Witness ==
    /\ failed
    /\ resp.cmd = "save_activity" /\ resp.result = Some("Ok")
    /\ Len(db) = 1

\* the rules of a configured list whose pattern compiles
Compilable(rules) == {i \in DOMAIN rules : Regex_new(rules[i].pattern) # None}

\* C22: extraction rules whose pattern fails to compile are dropped when a
\* plugin is constructed and are not fatal: the load succeeds, the plugin is
\* in the list, and its compiled rules are exactly the compilable rules of the
\* configuration, in their original relative order.
C22_Theorem ==
    resp.cmd = "load_from_config" =>
        /\ resp.result = "Ok"
        /\ Len(plugins) = 1 /\ plugins[1].name = "redmine"
        /\ Len(plugins[1].rules) = Cardinality(Compilable(resp.rules))
        /\ \A i \in Compilable(resp.rules) :
              plugins[1].rules[Cardinality({j \in Compilable(resp.rules) : j <= i})] =
                  [regex |-> resp.rules[i].pattern, source |-> resp.rules[i].source]

\* three rules, the middle one with a pattern that does not compile: the
\* plugin is loaded with the first and the third
C22_Witness ==
    /\ resp.cmd = "load_from_config"
    /\ Len(resp.rules) = 3 /\ Compilable(resp.rules) = {1, 3}
    /\ Len(plugins) = 1 /\ Len(plugins[1].rules) = 2
    /\ plugins[1].rules[2].source = "domain"

\* the triple of a stored row
TripleOf(r) ==
    [process_name |-> r.process_name, window_title |-> r.window_title,
     domain |-> r.domain]

\* C23: on a tick with tracking enabled where the probe returns a triple that
\* differs from the open triple in any component, or where no interval is
\* open, the recorder closes the Open interval if any, emitting it with the
\* old triple and the old start timestamp, and becomes Open with the new
\* triple and a start timestamp read from the clock in this tick; when the
\* triple is unchanged the recorder stays Open with the same triple and the
\* same start timestamp and emits nothing.
C23_Theorem ==
    [][/\ (resp'.cmd = "tick" /\ resp'.is_tracking /\ resp'.sample # None) =>
             /\ db' = db /\ last' = last
             /\ IF resp'.sample[1] # last \/ activity_start = None
                THEN /\ cur' = resp'.sample
                     /\ IF activity_start # None
                        THEN wpc' = "change_save" /\ start' = activity_start
                        ELSE wpc' = "open"
                ELSE /\ wpc' = "sleep"
                     /\ activity_start' = activity_start /\ activity_start # None
       /\ wpc = "change_save" =>
             IF wpc' = wpc
             THEN last' = last /\ start' = start /\ cur' = cur /\ db' = db
             ELSE /\ wpc' = "open" /\ last' = last /\ cur' = cur
                  /\ \/ db' = db
                     \/ /\ Len(db') = Len(db) + 1
                        /\ SubSeq(db', 1, Len(db)) = db
                        /\ TripleOf(db'[Len(db')]) = last
                        /\ db'[Len(db')].start_time = Format(start[1])
       /\ wpc = "open" =>
             IF wpc' = wpc
             THEN last' = last /\ cur' = cur /\ db' = db
             ELSE /\ wpc' = "sleep"
                  /\ last' = cur[1]
                  /\ activity_start' = Some(now)
                  /\ db' = db]_vars

\* an interval stored with a domain, closed by a sample that differs from it
\* in the domain alone, and the next interval Open with that sample
C23_Witness ==
    /\ wpc = "sleep" /\ activity_start # None
    /\ Len(db) >= 1
    /\ db[Len(db)].domain # None
    /\ last = [TripleOf(db[Len(db)]) EXCEPT !.domain = None]

\* C24: on a tick that observes tracking disabled the recorder does not query
\* the probe; if it is Open it emits the open interval ending now (subject to
\* the minimum-duration filter) and becomes Idle, and if it is Idle it stays
\* Idle and emits nothing.
C24_Theorem ==
    [][/\ (resp'.cmd = "tick" /\ ~resp'.is_tracking) =>
             /\ db' = db /\ cur' = cur
             /\ IF activity_start # None
                THEN /\ wpc' = "pause_save" /\ start' = activity_start
                     /\ activity_start' = None /\ last' = last
                ELSE /\ wpc' = "sleep" /\ slept' = 0
                     /\ activity_start' = None /\ last' = Cleared
       /\ wpc = "pause_save" =>
             IF wpc' = wpc
             THEN last' = last /\ start' = start /\ db' = db /\ activity_start' = None
             ELSE /\ wpc' = "sleep" /\ slept' = 0 /\ cur' = cur
                  /\ activity_start' = None /\ last' = Cleared
                  /\ IF last.process_name # "" /\ now - start[1] >= TicksPerSec
                        /\ resp'.result # Some("Err")
                     THEN /\ Len(db') = Len(db) + 1
                          /\ SubSeq(db', 1, Len(db)) = db
                          /\ TripleOf(db'[Len(db')]) = last
                          /\ db'[Len(db')].start_time = Format(start[1])
                          /\ db'[Len(db')].end_time = Format(now)
                     ELSE db' = db]_vars

\* the pause tick has stored the interval that was open and the recorder is
\* Idle, the toggle still off
C24_Witness ==
    /\ ~is_tracking /\ wpc = "sleep" /\ activity_start = None /\ last = Cleared
    /\ resp.cmd = "save_activity" /\ resp.result = Some("Ok")
    /\ Len(db) >= 1 /\ db[Len(db)].end_time = Format(now)

\* C25: on a tick with tracking enabled where the probe yields nothing the
\* recorder makes no transition: nothing is emitted, and an Open interval
\* keeps its triple and its start timestamp.
C25_Theorem ==
    [][(resp'.cmd = "tick" /\ resp'.is_tracking /\ resp'.sample = None) =>
          /\ db' = db /\ seq' = seq
          /\ last' = last /\ activity_start' = activity_start
          /\ start' = start /\ cur' = cur
          /\ wpc' = "sleep"]_vars

\* a tick without a sample, a second or more after the interval was opened,
\* and the interval is still Open
C25_Witness ==
    /\ resp.cmd = "tick" /\ resp.is_tracking /\ resp.sample = None
    /\ activity_start # None /\ last # Cleared
    /\ now - activity_start[1] >= TicksPerSec

\* the watcher is at a save_activity call: a focus change or a pause has
\* closed the interval
AtBoundary == wpc \in {"change_save", "pause_save"}

\* C26: intervals are persisted only by the recorder at a focus-change or a
\* tracking-pause boundary; an emission calls the store's INSERT exactly once
\* when the interval passes the filter (non-empty process name and duration of
\* at least one second) and not at all when it does not; a successful INSERT
\* adds exactly one row, and nothing is left to be written later.
C26_Theorem ==
    [][/\ db' # db => (AtBoundary /\ resp'.cmd = "save_activity")
       /\ (AtBoundary /\ wpc' # wpc) =>
             /\ resp'.cmd = "save_activity"
             /\ resp'.result # None <=>
                   (last.process_name # "" /\ now - start[1] >= TicksPerSec)
             /\ IF resp'.result = Some("Ok")
                THEN /\ Len(db') = Len(db) + 1
                     /\ SubSeq(db', 1, Len(db)) = db
                     /\ TripleOf(db'[Len(db')]) = last
                ELSE db' = db
             /\ start' = None /\ ~AtBoundary']_vars

\* an emission has just been stored in a run in which another was filtered out
C26_Witness ==
    /\ resp.cmd = "save_activity" /\ resp.result = Some("Ok")
    /\ dropped /\ ~failed
    /\ Len(db) >= 1

\* C27: if the wall clock moves backward while an interval is open, so that
\* end - start is zero or negative when the interval is emitted, the interval
\* is discarded without a write; no row with a zero or negative duration is
\* ever stored, and the recorder goes on to the next interval.
C27_Theorem ==
    /\ [](\A i \in DOMAIN db :
             /\ db[i].duration_seconds > 0
             /\ Seconds(db[i].end_time) >= Seconds(db[i].start_time))
    /\ [][(AtBoundary /\ wpc' # wpc /\ now - start[1] <= 0) =>
             /\ db' = db
             /\ resp'.result = None
             /\ wpc' = IF wpc = "change_save" THEN "open" ELSE "sleep"]_vars

\* after a backward step of the clock an interval with a negative duration
\* was dropped at a focus change, and the recorder is about to open the next
C27_Witness ==
    /\ adjusts >= 1
    /\ resp.cmd = "save_activity" /\ resp.result = None /\ resp.duration < 0
    /\ wpc = "open" /\ last.process_name # ""

\* C28: the tracking toggle is changed only by start_tracking and
\* stop_tracking: it is enabled at launch, before the sampling loop's first
\* tick; at every moment it is the value run() or the most recent start / stop
\* wrote, is_tracking returns that value, and no step of the sampling loop and
\* no step that returns from a query changes it.
C28_Theorem ==
    /\ is_tracking = TRUE
    /\ [](is_tracking = toggled)
    /\ [](resp.cmd = "is_tracking" => resp.result = toggled)
    /\ [][is_tracking' # is_tracking =>
             /\ toggled' = is_tracking'
             /\ resp' = NoResp
             /\ wpc' = wpc /\ slept' = slept /\ db' = db
             /\ last' = last /\ activity_start' = activity_start]_vars

\* is_tracking returns false in the middle of a tick that read the toggle as
\* true before stop_tracking was called
C28_Witness ==
    /\ resp.cmd = "is_tracking" /\ resp.result = FALSE
    /\ wpc = "open"

\* the text is a decimal number
IsNumber(text) == text # <<>> /\ \A i \in DOMAIN text : text[i] \in Digits

\* C30: sync_time_entry issues its network request only after all three
\* checks have passed: the activity id is that of a stored row, the plugin
\* name is that of an active plugin, and the ticket id is a number; a call
\* that fails a check returns an error without having sent a request, and no
\* step of the command changes the table or the plugin list.
C30_Theorem ==
    [][/\ db' = db /\ plugins' = plugins
       /\ \A c \in Callers :
             /\ (tasks[c].pc = "locked" /\ tasks'[c].pc # "locked") =>
                   IF \E i \in DOMAIN db : db[i].id = tasks[c].activity_id
                   THEN /\ tasks'[c].pc = "resolve"
                        /\ tasks'[c].activity \in RowSet(db)
                        /\ tasks'[c].activity.id = tasks[c].activity_id
                   ELSE /\ tasks'[c].pc = "idle"
                        /\ resp'.cmd = "sync_time_entry" /\ resp'.requests = 0
                        /\ "err" \in DOMAIN resp'.result
             /\ (tasks[c].pc = "resolve" /\ tasks'[c].pc # "resolve") =>
                   IF /\ \E i \in DOMAIN plugins : plugins[i].name = tasks[c].plugin_name
                      /\ IsNumber(tasks[c].ticket_id)
                   THEN /\ tasks'[c].pc = "awaiting" /\ tasks'[c].requests = 1
                        /\ tasks'[c].plugin.name = tasks[c].plugin_name
                        /\ tasks'[c].request.spent_on = tasks[c].activity.start_time[1]
                   ELSE /\ tasks'[c].pc = "idle"
                        /\ resp'.cmd = "sync_time_entry" /\ resp'.requests = 0
                        /\ "err" \in DOMAIN resp'.result
             /\ (tasks[c].pc = "idle" /\ tasks'[c].pc = "awaiting") =>
                   tasks'[c].cmd = "test_connection"]_vars

\* a call with a ticket id that is not a number has returned its error
\* without a request while the other call's request is in flight
C30_Witness ==
    /\ resp.cmd = "sync_time_entry" /\ resp.requests = 0
    /\ resp.result = [err |-> [kind |-> "Invalid ticket ID"]]
    /\ \E c \in Callers : tasks[c].pc = "awaiting" /\ tasks[c].cmd = "sync_time_entry"

\* thread t is in the call that acquires lock l / holds the guard of lock l
Waits(t, l) ==
    At(t) = (CASE l \in {"db", "is_tracking"} -> "lock " \o l [] OTHER -> l)

Holds(t, l) == tasks[t].pc = "running" /\ l \in tasks[t].held

\* the step at which a thread acquires a lock
Acquiring == {"lock db", "lock is_tracking", "read", "write"}

\* C29: no interleaving of the sampling loop, start/stop, the queries,
\* extract_ticket_ids, sync_time_entry, test_plugin_connection and
\* reload_plugins can deadlock: no thread acquires a lock while it holds the
\* tracking lock; the store lock and the plugin-list lock are nested only as
\* store, then plugin list (read); the write lock of the plugin list is taken
\* and held without the store lock; and every thread that waits for a lock
\* eventually holds it.
C29_Theorem ==
    /\ [](\A t \in Threads :
             /\ Holds(t, "is_tracking") =>
                   (tasks[t].held = {"is_tracking"} /\ At(t) \notin Acquiring)
             /\ (Holds(t, "read") \/ Holds(t, "write")) =>
                   At(t) \notin {"lock db", "lock is_tracking"}
             /\ Holds(t, "write") => tasks[t].held = {"write"}
             /\ At(t) = "write" => tasks[t].held = {}
             /\ (locks.db = Some(t)) <=> Holds(t, "db")
             /\ (locks.is_tracking = Some(t)) <=> Holds(t, "is_tracking"))
    /\ [](/\ readers = Cardinality({t \in Threads : Holds(t, "read")})
          /\ writer <=> \E t \in Threads : Holds(t, "write")
          /\ ~(writer /\ readers > 0))
    /\ \A t \in Threads : \A l \in {"db", "is_tracking", "read", "write"} :
          Waits(t, l) ~> Holds(t, l)

\* the watcher waits for the store lock, which extract_ticket_ids holds while
\* it waits for the read lock of the plugin list, which a reload has locked
\* for writing
C29_Witness ==
    /\ Waits("watcher", "db")
    /\ \E t, u \in Callers :
          /\ tasks[t].pc = "running" /\ tasks[t].cmd = "extract_ticket_ids"
          /\ Holds(t, "db") /\ Waits(t, "read")
          /\ tasks[u].pc = "running" /\ tasks[u].cmd = "reload_plugins"
          /\ Holds(u, "write")

====
